---- MODULE Spec2Model ----
(***************************************************************************)
(* Retrieval-matching and answer-routing engine of RAG_Romeo_Juliet:       *)
(*   core/groundtruth_based_retrieval.py  GroundtruthBasedRetriever        *)
(*   core/intelligent_rag_system.py       IntelligentRAGSystem             *)
(*   tools/generate_groundtruth_runs.py   generate_groundtruth_runs        *)
(*                                                                         *)
(* A text (passage, answer, backend response) is a sequence of characters, *)
(* each character a one-character string.  A question or query text is     *)
(* named by a string; the embedding model maps it to a vector.             *)
(***************************************************************************)
EXTENDS Integers, Sequences, FiniteSets, TLC

(***************************************************************************)
(* Bounds of the model.                                                    *)
(***************************************************************************)
\* longest text the generation backend answers with
MaxResponseLen == 2
\* largest limit (k of search, top_k of find_matching_topic) that is tried
MaxK == 6
\* most fallback requests one process of the skill is sent
MaxFallbacks == 32
\* seconds the app is followed for
MaxClock == 2

(***************************************************************************)
(* Program constants.                                                      *)
(***************************************************************************)
\* answer_question: self.retriever.search(query, k=4, ...)
K == 4
\* _template_integrate: passages[:2]
TOP_PASSAGES == 2
\* _template_integrate: if len(integrated_info) > 500
MAX_LENGTH == 500
\* _template_integrate: integrated_info[:497]
CUT_LENGTH == 497
\* search: relevance == 2
KNOWN_RELEVANCE == 2
\* search: relevance == 1
INFERRED_RELEVANCE == 1
\* search: scores = [1.0] * len(passages)
SCORE == 1
\* `if self.fallback_count >= 30`
FALLBACK_LIMIT == 30

\* _answer_out_of_kb: the refusal, written as two adjacent literals
REFUSAL_HEAD ==
  <<
     "I", " ", "c", "a", "n", "n", "o", "t", " ", "a", "n", "s", "w", "e", "r", " ",
     "t", "h", "i", "s", " ", "q", "u", "e", "s", "t", "i", "o", "n", " ", "a", "s",
     " ", "i", "t", " ", "i", "s", " ", "o", "u", "t", "s", "i", "d", "e", " ", "t",
     "h", "e", " ", "s", "c", "o", "p", "e", " ", "o", "f", " " >>

REFUSAL_TAIL ==
  <<
     "t", "h", "e", " ", "R", "o", "m", "e", "o", " ", "a", "n", "d", " ", "J", "u",
     "l", "i", "e", "t", " ", "k", "n", "o", "w", "l", "e", "d", "g", "e", " ", "b",
     "a", "s", "e", "." >>

OUT_OF_KB_REFUSAL ==
  REFUSAL_HEAD \o REFUSAL_TAIL

\* _generate_with_llm: the refusal of the except branch, one literal
LLM_FALLBACK_REFUSAL ==
  <<
     "I", " ", "c", "a", "n", "n", "o", "t", " ", "a", "n", "s", "w", "e", "r", " ",
     "t", "h", "i", "s", " ", "q", "u", "e", "s", "t", "i", "o", "n", " ", "a", "s",
     " ", "i", "t", " ", "i", "s", " ", "o", "u", "t", "s", "i", "d", "e", " ", "t",
     "h", "e", " ", "s", "c", "o", "p", "e", " ", "o", "f", " ", "t", "h", "e", " ",
     "R", "o", "m", "e", "o", " ", "a", "n", "d", " ", "J", "u", "l", "i", "e", "t",
     " ", "k", "n", "o", "w", "l", "e", "d", "g", "e", " ", "b", "a", "s", "e", "." >>

\* _answer_known: guard for an empty passage list
NO_ANSWER_FOUND ==
  <<
     "N", "o", " ", "a", "n", "s", "w", "e", "r", " ", "f", "o", "u", "n", "d", " ",
     "i", "n", " ", "k", "n", "o", "w", "l", "e", "d", "g", "e", " ", "b", "a", "s",
     "e", "." >>

\* _answer_inferred: guard for an empty passage list
NO_RELEVANT_INFO ==
  <<
     "N", "o", " ", "r", "e", "l", "e", "v", "a", "n", "t", " ", "i", "n", "f", "o",
     "r", "m", "a", "t", "i", "o", "n", " ", "f", "o", "u", "n", "d", " ", "i", "n",
     " ", "k", "n", "o", "w", "l", "e", "d", "g", "e", " ", "b", "a", "s", "e", "." >>

ELLIPSIS ==
  << ".", ".", "." >>

SEPARATOR ==
  << " " >>

\* the characters str.strip() removes, those for which str.isspace()
\* holds: the ASCII ones, the separators FS, GS, RS and US, NEL, the
\* no-break space and the Unicode spaces (each written as Python writes it
\* where TLA+ has no escape for it)
WHITESPACE ==
  { " ", "\t", "\n", "\r", "\f", "\\x0b",
    "\\x1c", "\\x1d", "\\x1e", "\\x1f", "\\x85", "\\xa0",
    "\\u1680", "\\u2000", "\\u2001", "\\u2002", "\\u2003", "\\u2004",
    "\\u2005", "\\u2006", "\\u2007", "\\u2008", "\\u2009", "\\u200a",
    "\\u2028", "\\u2029", "\\u202f", "\\u205f", "\\u3000" }

(***************************************************************************)
(* Python sequence helpers.                                                *)
(***************************************************************************)
Min(a, b) ==
  IF a < b THEN a ELSE b

\* s[:n]
Take(s, n) ==
  SubSeq(s, 1, Min(n, Len(s)))

\* a list or array with its elements computed
Array(s) ==
  SubSeq(s, 1, Len(s))

\* s[::-1]
Reverse(s) ==
  Array([i \in 1..Len(s) |-> s[Len(s) + 1 - i]])

\* sep.join(parts)
RECURSIVE join(_, _)
join(sep, parts) ==
  IF parts = << >> THEN << >>
  ELSE IF Len(parts) = 1 THEN parts[1]
  ELSE parts[1] \o sep \o join(sep, Tail(parts))

RECURSIVE lstrip(_)
lstrip(s) ==
  IF s # << >> /\ Head(s) \in WHITESPACE THEN lstrip(Tail(s)) ELSE s

\* str.strip()
strip(s) ==
  Reverse(lstrip(Reverse(lstrip(s))))

(***************************************************************************)
(* The embedding model (SentenceTransformer, a black box to the program):  *)
(* encode maps a text to a vector.  all-MiniLM-L6-v2 returns vectors of    *)
(* one fixed norm; here integer vectors of norm 5.                         *)
(***************************************************************************)
\* canonical question texts of the corpora
QuestionTexts ==
  { "q1", "q2", "q3", "q4", "q5", "q6", "q7" }

\* query texts that are not canonical questions
OtherTexts ==
  { "x1", "x2", "x3" }

\* the empty text and a text of blanks only
BlankTexts ==
  { "(empty)", "(blanks)" }

Texts ==
  QuestionTexts \cup OtherTexts \cup BlankTexts

\* str.strip() of a request text (the other texts have no blank at an end)
strip_text(text) ==
  IF text \in BlankTexts THEN "(empty)" ELSE text

encode(text) ==
  CASE text = "q1" -> << 4, 3 >>
    [] text = "q2" -> << 3, 4 >>
    [] text = "q3" -> << 0, 5 >>
    [] text = "q4" -> << -5, 0 >>
    [] text = "q5" -> << 4, -3 >>
    [] text = "q6" -> << -3, -4 >>
    [] text = "q7" -> << 3, 4 >>
    [] text = "x1" -> << 5, 0 >>
    [] text = "x2" -> << -4, -3 >>
    [] text = "x3" -> << -4, 3 >>
    [] text \in BlankTexts -> << 0, -5 >>

\* np.dot of two vectors
Dot(u, v) ==
  u[1] * v[1] + u[2] * v[2]

(***************************************************************************)
(* The tables read at start-up: topics.csv and groundtruth.csv.            *)
(***************************************************************************)
\* a passage text of n characters
PassageText(n, s) ==
  [i \in 1..n |-> IF (i + s) % 5 = 0 THEN " "
                  ELSE IF (i + s) % 2 = 0 THEN "a" ELSE "b"]

TopicRow(qid, tid, text) ==
  [question_id |-> qid, topic_id |-> tid, question |-> text]

GroundtruthRow(tid, pid, n, s, rel) ==
  [topic_id |-> tid, passage_id |-> pid, passage |-> PassageText(n, s),
   relevance_judgment |-> rel]

\* one question per topic; topic W04 has no groundtruth row
TopicsA ==
  << TopicRow("Q1", "W01", "q1"), TopicRow("Q2", "W02", "q2"),
     TopicRow("Q3", "W03", "q3"), TopicRow("Q4", "W04", "q4"),
     TopicRow("Q5", "W05", "q5"), TopicRow("Q6", "W06", "q6") >>

\* rows 1 and 4 carry questions with the same embedding
TopicsB ==
  << TopicRow("Q1", "W02", "q2"), TopicRow("Q2", "W04", "q4"),
     TopicRow("Q3", "W03", "q3"), TopicRow("Q4", "W01", "q7"),
     TopicRow("Q5", "W05", "q5") >>

\* a single question, of a topic without groundtruth rows
TopicsC ==
  << TopicRow("Q1", "W04", "q4") >>

TopicsTables ==
  { TopicsA, TopicsB, TopicsC }

GroundtruthA ==
  << GroundtruthRow("W01", "P001", 520, 0, 2),
     GroundtruthRow("W01", "P002", 30, 1, 2),
     GroundtruthRow("W01", "P003", 20, 2, 2),
     GroundtruthRow("W02", "P004", 300, 3, 1),
     GroundtruthRow("W02", "P005", 400, 4, 1),
     GroundtruthRow("W02", "P006", 30, 0, 1),
     GroundtruthRow("W02", "P007", 20, 1, 1),
     GroundtruthRow("W02", "P008", 10, 2, 1),
     GroundtruthRow("W03", "P009", 20, 3, 0),
     GroundtruthRow("W03", "P010", 30, 4, 0),
     GroundtruthRow("W05", "P011", 249, 0, 1),
     GroundtruthRow("W05", "P012", 250, 1, 1),
     GroundtruthRow("W06", "P013", 250, 2, 1),
     GroundtruthRow("W06", "P014", 250, 3, 1) >>

\* rows of one topic are not adjacent, and carry different relevance values
GroundtruthB ==
  << GroundtruthRow("W02", "P001", 40, 0, 2),
     GroundtruthRow("W01", "P002", 501, 1, 1),
     GroundtruthRow("W02", "P003", 30, 2, 1),
     GroundtruthRow("W03", "P004", 25, 3, 3),
     GroundtruthRow("W05", "P005", 500, 4, 1),
     GroundtruthRow("W06", "P006", 10, 0, 1),
     GroundtruthRow("W03", "P007", 15, 1, 1),
     GroundtruthRow("W06", "P008", 20, 1, 1),
     GroundtruthRow("W06", "P009", 30, 2, 1),
     GroundtruthRow("W06", "P010", 40, 3, 1) >>

GroundtruthTables ==
  { GroundtruthA, GroundtruthB }

(***************************************************************************)
(* The generation backend (ollama.chat, external): what one call does.     *)
(***************************************************************************)
RECURSIVE TextsUpTo(_)
TextsUpTo(n) ==
  IF n = 0 THEN { << >> }
  ELSE LET shorter == TextsUpTo(n - 1)
       IN  shorter \cup { t \o << c >> : t \in shorter, c \in { " ", "a" } }

\* the call raises; the response has no 'message'; the message has no
\* 'content'; the content is None; or the content is a text
BackendResponses ==
  { [kind |-> k, content |-> << >>] :
       k \in { "raise", "no_message", "no_content", "none_content" } }
  \cup { [kind |-> "text", content |-> t] : t \in TextsUpTo(MaxResponseLen) }

(***************************************************************************)
(* State.                                                                  *)
(***************************************************************************)
\* the threads that serve calls: app.run serves every request in a thread
\* of its own, the other entry points have the main thread only
Threads ==
  { "t1", "t2" }

VARIABLES
  program,              \* the entry point this process runs
  topics_df,            \* GroundtruthBasedRetriever.topics_df
  groundtruth_df,       \* GroundtruthBasedRetriever.groundtruth_df
  question_embeddings,  \* GroundtruthBasedRetriever.question_embeddings
  tie_order,            \* how this build's np.argsort orders equal values
  use_llm,              \* IntelligentRAGSystem.use_llm
  llm_available,        \* IntelligentRAGSystem.llm_available
  pc,                   \* per thread: position of its answer_question call
  call,                 \* per thread: frame of the call waiting in ollama.chat
  retrieved,            \* what the last search returned
  ret,                  \* what the last answer_question returned
  http,                 \* status of the last HTTP response of the app
  run_idx,              \* generate_groundtruth_runs: rows processed
  type_stats,           \* generate_groundtruth_runs: type_stats
  run_errors,           \* generate_groundtruth_runs: rows that raised
  remembered,           \* history: one earlier answer given without backend
  failed_before,        \* history: a backend call has failed in this process
  matched,              \* what the last find_matching_topic(query, top_k) returned
  fallback_count,       \* FallbackIntentHandler.fallback_count of the one handler
  fallbacks_handled,    \* history: fallback requests handled by this process
  alexa_response,       \* the last response of the Alexa skill
  clock,                \* int(time.time()): the second the process is in
  audio_files,          \* the files output_<audio_id>.mp3: text spoken, by id
  audio_log,            \* history, by audio_id: requests given the id, and
                        \* whether the file still speaks the first one's text
  tts,                  \* per thread: the speech and the audio_id of the
                        \* request waiting in tts.save
  voice_pc,             \* VoiceRAGSystem: the step its caller is at
  voice_caller,         \* the method that runs the steps
  voice_files,          \* the temporary files in the working directory
  voice_trace,          \* history: the steps the current (or the last)
                        \* process_voice_query has run
  voice_result,         \* how the last process_voice_query ended
  voice_question        \* the question transcribed or typed

vars ==
  << program, topics_df, groundtruth_df, question_embeddings, tie_order,
     use_llm, llm_available, pc, call, retrieved, ret, http, run_idx,
     type_stats, run_errors, remembered, failed_before, matched,
     fallback_count, fallbacks_handled, alexa_response, clock, audio_files,
     audio_log, tts, voice_pc, voice_caller, voice_files, voice_trace,
     voice_result, voice_question >>

\* the variables of the retriever, the RAG system and their callers
rag_vars ==
  << program, topics_df, groundtruth_df, question_embeddings, tie_order,
     use_llm, llm_available, pc, call, retrieved, ret, http, run_idx,
     type_stats, run_errors, remembered, failed_before, matched >>

\* the variables of the Alexa skill
alexa_vars ==
  << fallback_count, fallbacks_handled, alexa_response >>

\* the clock and the audio files of the Flask app
audio_vars ==
  << clock, audio_files, audio_log, tts >>

\* the variables of VoiceRAGSystem and its callers
voice_vars ==
  << voice_pc, voice_caller, voice_files, voice_trace, voice_result,
     voice_question >>

(***************************************************************************)
(* GroundtruthBasedRetriever.                                              *)
(***************************************************************************)
\* variant: the embeddings are stored in the reverse of the row order
build_question_index_reversed(topics) ==
  [i \in 1..Len(topics) |-> encode(topics[Len(topics) + 1 - i].question)]

\* _build_question_index: one embedding per row of topics_df
build_question_index(topics) ==
  [i \in 1..Len(topics) |-> encode(topics[i].question)]

\* np.dot(self.question_embeddings, query_embedding)
Similarities(query) ==
  LET query_embedding == encode(query)
  IN  Array([i \in 1..Len(question_embeddings) |->
               Dot(question_embeddings[i], query_embedding)])

\* np.argsort(a): the indices in ascending order of value.  The default
\* kind is not a stable sort: the order of equal values is the build's
\* (insertion sort keeps index order; a vectorised sort need not).
argsort(a) ==
  LET n == Len(a)
      Before(i, j) ==
        \/ a[i] < a[j]
        \/ a[i] = a[j] /\ IF tie_order = "index" THEN i < j ELSE i > j
      rank == Array([i \in 1..n |->
                       Cardinality({ j \in 1..n : Before(j, i) })])
  IN  Array([r \in 1..n |-> CHOOSE i \in 1..n : rank[i] = r - 1])

\* the value of an expression computed once
Only(values) ==
  CHOOSE value \in values : TRUE

\* the triples of the rows top_indices
Matches(similarities, top_indices) ==
  [j \in 1..Len(top_indices) |->
     [topic_id    |-> topics_df[top_indices[j]].topic_id,
      question_id |-> topics_df[top_indices[j]].question_id,
      similarity  |-> similarities[top_indices[j]]]]

\* variant: the ascending order of argsort is not reversed
find_matching_topics_ascending(query, top_k) ==
  Only({ Matches(similarities, Take(argsort(similarities), top_k)) :
            similarities \in { Similarities(query) } })

\* variant: the ascending order is cut to top_k before it is reversed
find_matching_topics_cut_first(query, top_k) ==
  Only({ Matches(similarities,
                 Reverse(Take(argsort(similarities), top_k))) :
            similarities \in { Similarities(query) } })

\* the list `results` of find_matching_topic
find_matching_topics(query, top_k) ==
  Only({ Matches(similarities,
                 Take(Reverse(argsort(similarities)), top_k)) :
            similarities \in { Similarities(query) } })

\* find_matching_topic(query), top_k = 1: results[0]
find_matching_topic(query) ==
  find_matching_topics(query, 1)[1]

\* find_matching_topic(query, top_k): `results[0] if top_k == 1 else results`
find_matching_topic_top_k(query, top_k) ==
  IF top_k = 1 THEN find_matching_topics(query, top_k)[1]
  ELSE find_matching_topics(query, top_k)

\* variant: the rows the last search returned are not selected again
TopicRows_unseen(topic_id) ==
  SelectSeq(groundtruth_df,
            LAMBDA row : /\ row.topic_id = topic_id
                         /\ \A i \in 1..Len(retrieved.passage_ids) :
                               retrieved.passage_ids[i] # row.passage_id)

\* self.groundtruth_df[self.groundtruth_df['topic_id'] == topic_id]
TopicRows(topic_id) ==
  SelectSeq(groundtruth_df, LAMBDA row : row.topic_id = topic_id)

Column(rows, name) ==
  [i \in 1..Len(rows) |-> rows[i][name]]

classify(relevance) ==
  IF relevance = KNOWN_RELEVANCE THEN "Known"
  ELSE IF relevance = INFERRED_RELEVANCE THEN "Inferred"
  ELSE "Unknown"

\* variant: a match of low similarity is not trusted as a knowledge gap
search_with_threshold(query, k) ==
  LET match      == find_matching_topic(query)
      topic_rows == TopicRows(match.topic_id)
  IN  IF Len(topic_rows) = 0
      THEN [passages |-> << >>, scores |-> << >>, passage_ids |-> << >>,
            question_type |-> IF match.similarity > 0
                              THEN "Out-of-KB" ELSE "Unknown"]
      ELSE LET passages == Take(Column(topic_rows, "passage"), k)
           IN  [passages      |-> passages,
                scores        |-> [i \in 1..Len(passages) |-> SCORE],
                passage_ids   |-> Take(Column(topic_rows, "passage_id"), k),
                question_type |-> classify(topic_rows[1].relevance_judgment)]

\* variant: the passage ids are not cut to k
search_all_ids(query, k) ==
  LET topic_rows == TopicRows(find_matching_topic(query).topic_id)
  IN  IF Len(topic_rows) = 0
      THEN [passages |-> << >>, scores |-> << >>, passage_ids |-> << >>,
            question_type |-> "Out-of-KB"]
      ELSE LET passages == Take(Column(topic_rows, "passage"), k)
           IN  [passages      |-> passages,
                scores        |-> [i \in 1..Len(passages) |-> SCORE],
                passage_ids   |-> Column(topic_rows, "passage_id"),
                question_type |-> classify(topic_rows[1].relevance_judgment)]

\* variant: every passage carries the similarity of the match as its score
search_scored_by_similarity(query, k) ==
  LET match      == find_matching_topic(query)
      topic_rows == TopicRows(match.topic_id)
  IN  IF Len(topic_rows) = 0
      THEN [passages |-> << >>, scores |-> << >>, passage_ids |-> << >>,
            question_type |-> "Out-of-KB"]
      ELSE LET passages == Take(Column(topic_rows, "passage"), k)
           IN  [passages      |-> passages,
                scores        |-> [i \in 1..Len(passages) |-> match.similarity],
                passage_ids   |-> Take(Column(topic_rows, "passage_id"), k),
                question_type |-> classify(topic_rows[1].relevance_judgment)]

\* variant: the relevance is read from the last row of the topic
search_classified_by_last_row(query, k) ==
  LET topic_rows == TopicRows(find_matching_topic(query).topic_id)
  IN  IF Len(topic_rows) = 0
      THEN [passages |-> << >>, scores |-> << >>, passage_ids |-> << >>,
            question_type |-> "Out-of-KB"]
      ELSE LET passages == Take(Column(topic_rows, "passage"), k)
           IN  [passages      |-> passages,
                scores        |-> [i \in 1..Len(passages) |-> SCORE],
                passage_ids   |-> Take(Column(topic_rows, "passage_id"), k),
                question_type |->
                   classify(topic_rows[Len(topic_rows)].relevance_judgment)]

\* variant: a topic without rows is classified as Inferred
search_empty_is_inferred(query, k) ==
  LET topic_rows == TopicRows(find_matching_topic(query).topic_id)
  IN  IF Len(topic_rows) = 0
      THEN [passages |-> << >>, scores |-> << >>, passage_ids |-> << >>,
            question_type |-> "Inferred"]
      ELSE LET passages == Take(Column(topic_rows, "passage"), k)
           IN  [passages      |-> passages,
                scores        |-> [i \in 1..Len(passages) |-> SCORE],
                passage_ids   |-> Take(Column(topic_rows, "passage_id"), k),
                question_type |-> classify(topic_rows[1].relevance_judgment)]

search(query, k) ==
  LET topic_rows == TopicRows(find_matching_topic(query).topic_id)
  IN  IF Len(topic_rows) = 0
      THEN [passages |-> << >>, scores |-> << >>, passage_ids |-> << >>,
            question_type |-> "Out-of-KB"]
      ELSE LET passages == Take(Column(topic_rows, "passage"), k)
           IN  [passages      |-> passages,
                scores        |-> [i \in 1..Len(passages) |-> SCORE],
                passage_ids   |-> Take(Column(topic_rows, "passage_id"), k),
                question_type |-> classify(topic_rows[1].relevance_judgment)]

(***************************************************************************)
(* IntelligentRAGSystem.                                                   *)
(***************************************************************************)
\* variant: the length control of the template applied to a Known answer
answer_known_cut(passages) ==
  IF passages = << >> THEN NO_ANSWER_FOUND
  ELSE IF Len(passages[1]) > MAX_LENGTH
  THEN Take(passages[1], CUT_LENGTH) \o ELLIPSIS
  ELSE passages[1]

\* _answer_known
answer_known(passages) ==
  IF passages = << >> THEN NO_ANSWER_FOUND ELSE passages[1]

\* variant: the cut keeps MAX_LENGTH characters before the ellipsis
template_integrate_long_cut(query, passages) ==
  LET relevant_passages == Take(passages, TOP_PASSAGES)
      integrated_info   == join(SEPARATOR, relevant_passages)
  IN  IF Len(integrated_info) > MAX_LENGTH
      THEN Take(integrated_info, MAX_LENGTH) \o ELLIPSIS
      ELSE integrated_info

\* variant: three passages are selected
template_integrate_three(query, passages) ==
  LET relevant_passages == Take(passages, TOP_PASSAGES + 1)
      integrated_info   == join(SEPARATOR, relevant_passages)
  IN  IF Len(integrated_info) > MAX_LENGTH
      THEN Take(integrated_info, CUT_LENGTH) \o ELLIPSIS
      ELSE integrated_info

\* _template_integrate
template_integrate(query, passages) ==
  LET relevant_passages == Take(passages, TOP_PASSAGES)
      integrated_info   == join(SEPARATOR, relevant_passages)
  IN  IF Len(integrated_info) > MAX_LENGTH
      THEN Take(integrated_info, CUT_LENGTH) \o ELLIPSIS
      ELSE integrated_info

\* `self.use_llm and self.llm_available` (llm_available is read only when
\* use_llm holds, and _init_llm has then set it)
LLMEnabled ==
  use_llm /\ llm_available = "True"

\* _generate_with_llm, up to the call: the prompt handed to ollama.chat
build_prompt(query, passages, mode) ==
  [mode      |-> mode,
   question  |-> query,
   passages  |-> IF mode = "inferred" THEN passages ELSE << >>]

\* the exception the try block of _generate_with_llm meets, if any
ExceptionOf(response) ==
  CASE response.kind = "raise"        -> "ConnectionError"
    [] response.kind = "no_message"   -> "KeyError"
    [] response.kind = "no_content"   -> "KeyError"
    [] response.kind = "none_content" -> "AttributeError"
    [] response.kind = "text"         -> "none"

\* variant: the handler names the connection error only
CaughtByHandler_narrow(exception) ==
  exception \in { "ConnectionError" }

\* `except Exception as e`: every exception class above derives from it
CaughtByHandler(exception) ==
  exception \in { "ConnectionError", "KeyError", "AttributeError" }

\* variant: the except branch returns the refusal whatever the mode
generate_with_llm_refusing(query, passages, mode, response) ==
  LET exception == ExceptionOf(response)
  IN  IF exception = "none"
      THEN [raised |-> FALSE, via |-> "llm",
            value |-> strip(response.content)]
      ELSE IF ~CaughtByHandler(exception)
      THEN [raised |-> TRUE, via |-> "llm", value |-> << >>]
      ELSE [raised |-> FALSE, via |-> "refusal",
            value |-> LLM_FALLBACK_REFUSAL]

\* _generate_with_llm, from the return of ollama.chat on
generate_with_llm(query, passages, mode, response) ==
  LET exception == ExceptionOf(response)
  IN  IF exception = "none"
      THEN [raised |-> FALSE, via |-> "llm",
            value |-> strip(response.content)]
      ELSE IF ~CaughtByHandler(exception)
      THEN [raised |-> TRUE, via |-> "llm", value |-> << >>]
      ELSE IF mode = "inferred"
      THEN [raised |-> FALSE, via |-> "template",
            value |-> template_integrate(query, passages)]
      ELSE [raised |-> FALSE, via |-> "refusal",
            value |-> LLM_FALLBACK_REFUSAL]

NoResponse ==
  [kind |-> "none", content |-> << >>]

NoCall ==
  [entry |-> "none", query |-> "", question_type |-> "none",
   passages |-> << >>, prompt |-> build_prompt("", << >>, "none"),
   responds |-> FALSE]

NoResult ==
  [status |-> "none", entry |-> "none", query |-> "", answer |-> << >>,
   question_type |-> "none", passages |-> << >>, via |-> "none",
   response |-> NoResponse]

\* variant: after the template, the passages returned are those it used
Returned_used_passages(entry, query, answer, question_type, passages, via, response) ==
  [status |-> "returned", entry |-> entry, query |-> query,
   answer |-> answer, question_type |-> question_type,
   passages |-> IF via = "template" THEN Take(passages, TOP_PASSAGES)
                                    ELSE passages,
   via |-> via, response |-> response]

\* `return answer, question_type, passages` of answer_question
Returned(entry, query, answer, question_type, passages, via, response) ==
  [status |-> "returned", entry |-> entry, query |-> query,
   answer |-> answer, question_type |-> question_type,
   passages |-> passages, via |-> via, response |-> response]

Retrieved(query, found) ==
  [query |-> query, passages |-> found.passages, scores |-> found.scores,
   passage_ids |-> found.passage_ids, question_type |-> found.question_type]

\* variant: whatever is not Known is integrated from its passages
Dispatch_two_way(question_type) ==
  IF question_type = "Known" THEN "known" ELSE "inferred"

\* variant: a Known question is integrated like an Inferred one
Dispatch_known_integrated(question_type) ==
  IF question_type \in { "Known", "Inferred" } THEN "inferred"
  ELSE "out-of-kb"

\* the strategy answer_question dispatches to
Dispatch(question_type) ==
  IF question_type = "Known" THEN "known"
  ELSE IF question_type = "Inferred" THEN "inferred"
  ELSE "out-of-kb"

\* variant: the selection is assigned to self.groundtruth_df
groundtruth_after_search_selected(query) ==
  TopicRows(find_matching_topic(query).topic_id)

\* search only reads self.groundtruth_df: the selection is a local value
groundtruth_after_search(query) ==
  groundtruth_df

\* variant: a failed call marks the backend as unavailable
availability_after_call_disabling(response) ==
  IF ExceptionOf(response) # "none" THEN "False" ELSE llm_available

\* the except branch of _generate_with_llm leaves self.llm_available alone
availability_after_call(response) ==
  llm_available

NoMatch ==
  [query |-> "", top_k |-> 0, results |-> << >>]

(***************************************************************************)
(* The Alexa skill (alexa/lambda_function.py).                             *)
(***************************************************************************)
\* the Alexa sessions that send requests to the process
Sessions ==
  { "s1", "s2" }

\* the three texts of response_variations, by position
ResponseVariations ==
  1..3

NoAlexaResponse ==
  [session |-> "none", speech |-> "none", variation |-> 0,
   reprompt |-> FALSE, should_end_session |-> FALSE]

\* variant: the limit is passed only by the request after the thirtieth
fallback_response_late(session, count, variation) ==
  IF count > FALLBACK_LIMIT
  THEN [session |-> session, speech |-> "technical difficulties",
        variation |-> 0, reprompt |-> FALSE, should_end_session |-> TRUE]
  ELSE [session |-> session, speech |-> "not understood",
        variation |-> variation, reprompt |-> TRUE,
        should_end_session |-> FALSE]

\* FallbackIntentHandler.handle after the increment: the response built
\* (speak + set_should_end_session(True), or speak + ask, which keeps the
\* session open)
fallback_response(session, count, variation) ==
  IF count >= FALLBACK_LIMIT
  THEN [session |-> session, speech |-> "technical difficulties",
        variation |-> 0, reprompt |-> FALSE, should_end_session |-> TRUE]
  ELSE [session |-> session, speech |-> "not understood",
        variation |-> variation, reprompt |-> TRUE,
        should_end_session |-> FALSE]

\* the threads of this process
Workers ==
  IF program = "app" THEN Threads ELSE { "t1" }

\* the history kept for the comparison of two answers to one query
NothingRemembered ==
  [result |-> NoResult, between |-> FALSE]

Remember(result) ==
  IF remembered.result.status = "none"
  THEN IF LLMEnabled THEN { remembered }
       ELSE { remembered, [result |-> result, between |-> FALSE] }
  ELSE { [remembered EXCEPT
            !.between = @ \/ result.query # remembered.result.query] }

\* gTTS has nothing to say: gTTS(text="") fails its assertion and a text
\* of whitespace gives no token to send
NoTextToSpeak(text) ==
  \A i \in 1..Len(text) : text[i] \in WHITESPACE

\* ask_voice goes on to tts.save with the answer it was returned
Speaks(entry, result) ==
  /\ entry = "ask_voice"
  /\ result.status = "returned"
  /\ ~NoTextToSpeak(result.answer)

\* the status the caller of answer_question sends when the call is over:
\* none (direct call, VoiceRAGSystem), the JSON response of ask_text,
\* the 500 of a handler whose call or whose gTTS raised; ask_voice with
\* speech to save has not answered yet
HttpAfter(entry, result) ==
  IF entry \in { "direct", "process_voice_query", "interactive_mode", "main" }
  THEN http
  ELSE IF result.status = "raised" THEN "500"
  ELSE IF entry = "ask_text" THEN "200"
  ELSE IF NoTextToSpeak(result.answer) THEN "500"
  ELSE http

\* where the thread is after answer_question is over: in tts.save, a
\* request to the speech service, or done
PcAfter(entry, result) ==
  IF Speaks(entry, result) THEN "tts_save" ELSE "idle"

\* audio_id = f"{int(time.time())}"
audio_id_at(now) ==
  now

NoTts ==
  [text |-> << >>, audio_id |-> -1]

\* tts = gTTS(text=...) and the audio_id of this second
gTTS(text) ==
  [text |-> text, audio_id |-> audio_id_at(clock)]

\* tts.save(output_<audio_id>.mp3): open(..., 'wb') replaces a file of
\* that name
save_audio(files, audio_id, text) ==
  [id \in DOMAIN files \cup { audio_id } |->
     IF id = audio_id THEN text ELSE files[id]]

\* the history of the ids handed out, kept beside the files
log_audio(log, files, audio_id, text) ==
  [id \in DOMAIN log \cup { audio_id } |->
     IF id # audio_id THEN log[id]
     ELSE IF audio_id \notin DOMAIN log
     THEN [requests |-> 1, kept |-> TRUE]
     ELSE [requests |-> 2, kept |-> log[id].kept /\ files[id] = text]]

\* tts.save has written the file of the id the request took
SpeakToFile(speech) ==
  /\ audio_files' = save_audio(audio_files, speech.audio_id, speech.text)
  /\ audio_log' = log_audio(audio_log, audio_files, speech.audio_id,
                            speech.text)

\* ask_voice builds the speech of its answer and takes its audio_id before
\* it waits in tts.save; no other caller of answer_question does
AudioAfter(t, entry, result) ==
  /\ tts' = IF Speaks(entry, result)
            THEN [tts EXCEPT ![t] = gTTS(result.answer)]
            ELSE tts
  /\ UNCHANGED << clock, audio_files, audio_log >>

\* the temporary files of VoiceRAGSystem
TEMP_RECORDING ==
  "temp_recording.wav"

TEMP_RESPONSE ==
  "temp_response.mp3"

\* `except Exception` of process_voice_query: the error is logged and the
\* method returns None; the clean-up of the try block is not reached
VoiceFails(step) ==
  /\ voice_pc' = "idle"
  /\ voice_caller' = "none"
  /\ voice_result' = "error"
  /\ voice_trace' = Append(voice_trace, step)
  /\ UNCHANGED << voice_files, voice_question >>

\* process_voice_query goes from `step` to `next`
VoiceGoes(step, next) ==
  /\ voice_pc' = next
  /\ voice_trace' = Append(voice_trace, step)
  /\ UNCHANGED << voice_caller, voice_files, voice_result, voice_question >>

\* `except Exception` of interactive_mode: the error is logged and the loop
\* asks for the next command
TypedFails ==
  /\ voice_pc' = "idle"
  /\ voice_caller' = "none"
  /\ UNCHANGED << voice_files, voice_trace, voice_result, voice_question >>

\* the text branch of interactive_mode goes to `next`
TypedGoes(next) ==
  /\ voice_pc' = next
  /\ UNCHANGED << voice_caller, voice_files, voice_trace, voice_result,
                  voice_question >>

\* a step of one of the two callers is over, or has raised
StepDone(step, next) ==
  IF voice_caller = "process_voice_query" THEN VoiceGoes(step, next)
                                          ELSE TypedGoes(next)

StepRaised(step) ==
  IF voice_caller = "process_voice_query" THEN VoiceFails(step)
                                          ELSE TypedFails

\* generate_answer returns to process_voice_query or to interactive_mode,
\* or answer_question raised; main() only logs what it is returned, and a
\* caller outside VoiceRAGSystem leaves it alone
VoiceAfter(entry, result) ==
  IF entry \notin { "process_voice_query", "interactive_mode" }
  THEN UNCHANGED voice_vars
  ELSE IF result.status = "raised" THEN StepRaised("answer")
  ELSE StepDone("answer", "text_to_speech")

\* GET /api/audio/<audio_id>: the file of that name, or 404
get_audio(audio_id) ==
  IF audio_id \in DOMAIN audio_files
  THEN [status |-> "200", audio |-> audio_files[audio_id]]
  ELSE [status |-> "404", audio |-> << >>]

\* the texts posted to /api/tts
TtsTexts ==
  { << "b" >>, << " " >> }

(***************************************************************************)
(* Actions.                                                                *)
(***************************************************************************)
\* rag_system.answer_question(query) in thread t, called from `entry`, up
\* to its call of ollama.chat, or to its return and on to where the caller
\* answers or waits for the speech service
AnswerQuestion(t, entry, query) ==
  /\ pc[t] = "idle"
  /\ \E found \in { search(query, K) } :
     LET strategy == Dispatch(found.question_type)
         direct(answer, via) ==
           \E result \in { Returned(entry, query, answer, found.question_type,
                                    found.passages, via, NoResponse) } :
              /\ ret' = result
              /\ remembered' \in Remember(result)
              /\ http' = HttpAfter(entry, result)
              /\ pc' = [pc EXCEPT ![t] = PcAfter(entry, result)]
              /\ AudioAfter(t, entry, result)
              /\ VoiceAfter(entry, result)
              /\ UNCHANGED call
         viaBackend(passages, mode) ==
           /\ \E responds \in BOOLEAN :
                 call' = [call EXCEPT ![t] =
                            [entry |-> entry, query |-> query,
                             question_type |-> found.question_type,
                             passages |-> found.passages,
                             prompt |-> build_prompt(query, passages, mode),
                             responds |-> responds]]
           /\ pc' = [pc EXCEPT ![t] = "ollama_chat"]
           /\ ret' = NoResult
           /\ UNCHANGED << remembered, http >>
           /\ UNCHANGED audio_vars
           /\ UNCHANGED voice_vars
     IN  /\ retrieved' = Retrieved(query, found)
         /\ groundtruth_df' = groundtruth_after_search(query)
         /\ CASE strategy = "known" ->
                   direct(answer_known(found.passages), "known")
              [] strategy = "inferred" /\ found.passages = << >> ->
                   direct(NO_RELEVANT_INFO, "guard")
              [] strategy = "inferred" /\ found.passages # << >>
                                       /\ LLMEnabled ->
                   viaBackend(found.passages, "inferred")
              [] strategy = "inferred" /\ found.passages # << >>
                                       /\ ~LLMEnabled ->
                   direct(template_integrate(query, found.passages),
                          "template")
              [] strategy = "out-of-kb" /\ LLMEnabled ->
                   viaBackend(<< >>, "out-of-kb")
              [] strategy = "out-of-kb" /\ ~LLMEnabled ->
                   direct(OUT_OF_KB_REFUSAL, "refusal")
  /\ UNCHANGED << program, topics_df, question_embeddings, tie_order,
                  use_llm, llm_available, run_idx, type_stats, run_errors,
                  failed_before, matched >>
  /\ UNCHANGED alexa_vars

\* answer_question(query), called directly (test_intelligent_rag)
answer_question(query) ==
  /\ program = "intelligent_rag_system"
  /\ AnswerQuestion("t1", "direct", query)

\* POST /api/ask with the text `raw` as question, served by thread t
ask_text(t, raw) ==
  /\ program = "app"
  /\ IF strip_text(raw) = "(empty)"
     THEN /\ pc[t] = "idle"
          /\ http' = "400"
          /\ UNCHANGED << program, topics_df, groundtruth_df,
                          question_embeddings, tie_order, use_llm,
                          llm_available, pc, call, retrieved, ret, run_idx,
                          type_stats, run_errors, remembered, failed_before,
                          matched >>
          /\ UNCHANGED alexa_vars
          /\ UNCHANGED voice_vars
          /\ UNCHANGED audio_vars
     ELSE AnswerQuestion(t, "ask_text", strip_text(raw))

\* what a POST /api/ask-voice carries: no part named audio, a part with
\* an empty filename, a file whisper (or the saving of the upload) fails
\* on, or speech
Uploads ==
  { "no audio part", "empty filename", "not transcribed", "speech" }

\* POST /api/ask-voice, served by thread t; `raw` is what whisper hears
\* in an upload of speech
ask_voice(t, upload, raw) ==
  /\ program = "app"
  /\ IF upload = "speech"
     THEN AnswerQuestion(t, "ask_voice", strip_text(raw))
     ELSE /\ pc[t] = "idle"
          /\ http' = IF upload = "not transcribed" THEN "500" ELSE "400"
          /\ UNCHANGED << program, topics_df, groundtruth_df,
                          question_embeddings, tie_order, use_llm,
                          llm_available, pc, call, retrieved, ret, run_idx,
                          type_stats, run_errors, remembered, failed_before,
                          matched >>
          /\ UNCHANGED alexa_vars
          /\ UNCHANGED voice_vars
          /\ UNCHANGED audio_vars

\* the speech service answers the request of tts.save in thread t, or the
\* request fails; ask_voice or text_to_speech then sends its response
tts_save_returns(t, tts_ok) ==
  /\ program = "app"
  /\ pc[t] = "tts_save"
  /\ IF tts_ok
     THEN /\ http' = "200"
          /\ SpeakToFile(tts[t])
     ELSE /\ http' = "500"
          /\ UNCHANGED << audio_files, audio_log >>
  /\ tts' = [tts EXCEPT ![t] = NoTts]
  /\ pc' = [pc EXCEPT ![t] = "idle"]
  /\ UNCHANGED << program, topics_df, groundtruth_df, question_embeddings,
                  tie_order, use_llm, llm_available, call, retrieved, ret,
                  run_idx, type_stats, run_errors, remembered, failed_before,
                  matched, clock >>
  /\ UNCHANGED alexa_vars
  /\ UNCHANGED voice_vars

\* GET /: index() renders the main page, 200, or 500 when Flask does not
\* find templates/index.html
index(template_found) ==
  /\ program = "app"
  /\ http' = IF template_found THEN "200" ELSE "500"
  /\ UNCHANGED << program, topics_df, groundtruth_df, question_embeddings,
                  tie_order, use_llm, llm_available, pc, call, retrieved, ret,
                  run_idx, type_stats, run_errors, remembered, failed_before,
                  matched >>
  /\ UNCHANGED alexa_vars
  /\ UNCHANGED voice_vars
  /\ UNCHANGED audio_vars

\* GET /api/audio/<audio_id>
get_audio_route(audio_id) ==
  /\ program = "app"
  /\ http' = get_audio(audio_id).status
  /\ UNCHANGED << program, topics_df, groundtruth_df, question_embeddings,
                  tie_order, use_llm, llm_available, pc, call, retrieved, ret,
                  run_idx, type_stats, run_errors, remembered, failed_before,
                  matched >>
  /\ UNCHANGED alexa_vars
  /\ UNCHANGED voice_vars
  /\ UNCHANGED audio_vars

\* ollama.chat returns (or raises) in thread t and answer_question runs to
\* its end, then its caller to where it answers or waits for the speech
\* service
ollama_chat_returns(t, response) ==
  /\ pc[t] = "ollama_chat"
  /\ call[t].responds
  /\ \E generated \in { generate_with_llm(call[t].query,
                                          call[t].prompt.passages,
                                          call[t].prompt.mode, response) } :
     \E result \in {
          IF generated.raised
          THEN [NoResult EXCEPT !.status = "raised",
                                !.entry = call[t].entry,
                                !.query = call[t].query,
                                !.response = response]
          ELSE Returned(call[t].entry, call[t].query, generated.value,
                        call[t].question_type, call[t].passages,
                        generated.via, response) } :
        /\ ret' = result
        /\ http' = HttpAfter(call[t].entry, result)
        /\ pc' = [pc EXCEPT ![t] = PcAfter(call[t].entry, result)]
        /\ AudioAfter(t, call[t].entry, result)
        /\ VoiceAfter(call[t].entry, result)
  /\ llm_available' = availability_after_call(response)
  /\ failed_before' = (failed_before \/ ExceptionOf(response) # "none")
  /\ call' = [call EXCEPT ![t] = NoCall]
  /\ UNCHANGED << program, topics_df, groundtruth_df, question_embeddings,
                  tie_order, use_llm, retrieved, run_idx, type_stats,
                  run_errors, remembered, matched >>
  /\ UNCHANGED alexa_vars

\* retriever.find_matching_topic(query, top_k), the diagnostic use of the
\* matcher by a program that holds a retriever
find_matching_topic_call(query, top_k) ==
  /\ program = "retriever"
  /\ matched' = [query |-> query, top_k |-> top_k,
                 results |-> find_matching_topic_top_k(query, top_k)]
  /\ UNCHANGED << program, topics_df, groundtruth_df, question_embeddings,
                  tie_order, use_llm, llm_available, pc, call, retrieved, ret,
                  http, run_idx, type_stats, run_errors, remembered,
                  failed_before >>
  /\ UNCHANGED alexa_vars
  /\ UNCHANGED voice_vars
  /\ UNCHANGED audio_vars

\* generate_groundtruth_runs: one iteration of the loop over topics_df
generate_groundtruth_runs_step ==
  /\ program = "generate_groundtruth_runs"
  /\ run_idx < Len(topics_df)
  /\ \E found \in { search(topics_df[run_idx + 1].question, K) } :
     LET question == topics_df[run_idx + 1].question
         qtype    == found.question_type
     IN  /\ retrieved' = Retrieved(question, found)
         /\ groundtruth_df' = groundtruth_after_search(question)
         /\ IF qtype \in DOMAIN type_stats
            THEN /\ type_stats' = [type_stats EXCEPT ![qtype] = @ + 1]
                 /\ run_errors' = run_errors
            ELSE /\ type_stats' = type_stats
                 /\ run_errors' = run_errors + 1
  /\ run_idx' = run_idx + 1
  /\ UNCHANGED << program, topics_df, question_embeddings, tie_order,
                  use_llm, llm_available, pc, call, ret, http, remembered,
                  failed_before, matched >>
  /\ UNCHANGED alexa_vars
  /\ UNCHANGED voice_vars
  /\ UNCHANGED audio_vars

\* after GroundtruthBasedRetriever.__init__ and, in a process that answers
\* questions, IntelligentRAGSystem.__init__ with its probe _init_llm
\* (generate_groundtruth_runs is a script of its own, with a retriever of
\* its own over the same tables; app.py constructs with use_llm=True)
InitOf(programs, tables) ==
  /\ program \in programs
  /\ \E pair \in tables : /\ topics_df = pair[1]
                           /\ groundtruth_df = pair[2]
  /\ question_embeddings = build_question_index(topics_df)
  /\ tie_order \in { "index", "reverse" }
  /\ use_llm \in CASE program = "intelligent_rag_system" -> BOOLEAN
                   [] program = "app" -> { TRUE }
                   [] program = "generate_groundtruth_runs" -> { FALSE }
                   [] program = "retriever" -> { FALSE }
                   [] program = "lambda_function" -> { FALSE }
                   [] program = "voice_rag_system" -> BOOLEAN
  /\ llm_available \in IF use_llm THEN { "True", "False" } ELSE { "unset" }
  /\ pc = [t \in Threads |-> "idle"]
  /\ call = [t \in Threads |-> NoCall]
  /\ retrieved = Retrieved("", [passages |-> << >>, scores |-> << >>,
                                passage_ids |-> << >>,
                                question_type |-> "none"])
  /\ ret = NoResult
  /\ http = "none"
  /\ run_idx = 0
  /\ type_stats = [t \in { "Known", "Inferred", "Out-of-KB" } |-> 0]
  /\ run_errors = 0
  /\ remembered = NothingRemembered
  /\ failed_before = FALSE
  /\ matched = NoMatch
  /\ fallback_count = 0
  /\ fallbacks_handled = 0
  /\ alexa_response = NoAlexaResponse
  /\ clock = 0
  /\ audio_files = << >>
  /\ audio_log = << >>
  /\ tts = [t \in Threads |-> NoTts]
  /\ voice_pc = "idle"
  /\ voice_caller = "none"
  /\ voice_files = { }
  /\ voice_trace = << >>
  /\ voice_result = "none"
  /\ voice_question = ""

\* a groundtruth.csv with its header line only
GroundtruthEmpty ==
  << >>

\* the same programs constructed on an empty knowledge base: pd.read_csv
\* returns a frame without rows and __init__ goes on
EmptyKBInit ==
  InitOf({ "intelligent_rag_system", "generate_groundtruth_runs" },
         TopicsTables \X { GroundtruthEmpty })

Init ==
  InitOf({ "intelligent_rag_system", "generate_groundtruth_runs" },
         TopicsTables \X GroundtruthTables)

Next ==
  \/ \E query \in Texts : answer_question(query)
  \/ \E response \in BackendResponses : ollama_chat_returns("t1", response)
  \/ generate_groundtruth_runs_step

Spec ==
  Init /\ [][Next]_vars

EmptyKBSpec ==
  EmptyKBInit /\ [][Next]_vars

\* the same, the process going on whenever the backend has answered; that
\* the backend answers is not the program's to grant
LiveSpec ==
  /\ Init /\ [][Next]_vars
  /\ WF_vars(\E response \in BackendResponses :
                ollama_chat_returns("t1", response))
  /\ WF_vars(generate_groundtruth_runs_step)

\* AMAZON.FallbackIntent of a session: FallbackIntentHandler.handle, with
\* the text random.choice picks
FallbackIntentHandler_handle(session, variation) ==
  /\ program = "lambda_function"
  /\ fallbacks_handled < MaxFallbacks
  /\ fallback_count' = fallback_count + 1
  /\ fallbacks_handled' = fallbacks_handled + 1
  /\ alexa_response' = fallback_response(session, fallback_count', variation)
  /\ UNCHANGED rag_vars
  /\ UNCHANGED audio_vars
  /\ UNCHANGED voice_vars

\* a request answered with speak + ask (launch, help, an intent of the
\* play, a general question, and the exception handler): these handlers
\* keep no state and do not reach the fallback handler
OtherIntentHandler_handle(session) ==
  /\ program = "lambda_function"
  /\ alexa_response' = [session |-> session, speech |-> "intent answer",
                        variation |-> 0, reprompt |-> TRUE,
                        should_end_session |-> FALSE]
  /\ UNCHANGED << fallback_count, fallbacks_handled >>
  /\ UNCHANGED rag_vars
  /\ UNCHANGED audio_vars
  /\ UNCHANGED voice_vars

\* the four farewell texts of CancelOrStopIntentHandler, by position
FarewellVariations ==
  1..4

\* AMAZON.CancelIntent or AMAZON.StopIntent: speak +
\* set_should_end_session(True), without reprompt
CancelOrStopIntentHandler_handle(session, variation) ==
  /\ program = "lambda_function"
  /\ alexa_response' = [session |-> session, speech |-> "farewell",
                        variation |-> variation, reprompt |-> FALSE,
                        should_end_session |-> TRUE]
  /\ UNCHANGED << fallback_count, fallbacks_handled >>
  /\ UNCHANGED rag_vars
  /\ UNCHANGED audio_vars
  /\ UNCHANGED voice_vars

\* SessionEndedRequest: the empty response of the builder
SessionEndedRequestHandler_handle(session) ==
  /\ program = "lambda_function"
  /\ alexa_response' = [session |-> session, speech |-> "none",
                        variation |-> 0, reprompt |-> FALSE,
                        should_end_session |-> FALSE]
  /\ UNCHANGED << fallback_count, fallbacks_handled >>
  /\ UNCHANGED rag_vars
  /\ UNCHANGED audio_vars
  /\ UNCHANGED voice_vars

\* an intent no other handler takes: IntentReflectorHandler speaks the
\* name of the intent and sets neither a reprompt nor the end of the session
IntentReflectorHandler_handle(session) ==
  /\ program = "lambda_function"
  /\ alexa_response' = [session |-> session, speech |-> "intent name",
                        variation |-> 0, reprompt |-> FALSE,
                        should_end_session |-> FALSE]
  /\ UNCHANGED << fallback_count, fallbacks_handled >>
  /\ UNCHANGED rag_vars
  /\ UNCHANGED audio_vars
  /\ UNCHANGED voice_vars

\* the skill's process after `sb = SkillBuilder()` and the registration of
\* one instance of each handler; it loads no table
AlexaInit ==
  InitOf({ "lambda_function" }, { << TopicsC, GroundtruthEmpty >> })
  /\ tie_order = "index"

AlexaNext ==
  \/ \E session \in Sessions, variation \in ResponseVariations :
        FallbackIntentHandler_handle(session, variation)
  \/ \E session \in Sessions : OtherIntentHandler_handle(session)
  \/ \E session \in Sessions, variation \in FarewellVariations :
        CancelOrStopIntentHandler_handle(session, variation)
  \/ \E session \in Sessions : SessionEndedRequestHandler_handle(session)
  \/ \E session \in Sessions : IntentReflectorHandler_handle(session)

AlexaSpec ==
  AlexaInit /\ [][AlexaNext]_vars

\* a program that constructs a retriever and asks for ranked matches
MatchInit ==
  InitOf({ "retriever" }, TopicsTables \X { GroundtruthA })

MatchNext ==
  \E query \in Texts, top_k \in 1..MaxK :
     find_matching_topic_call(query, top_k)

MatchSpec ==
  MatchInit /\ [][MatchNext]_vars

\* POST /api/tts with `raw` as text, served by thread t up to its 400 or
\* to its wait in tts.save
text_to_speech(t, raw) ==
  /\ program = "app"
  /\ pc[t] = "idle"
  /\ IF strip(raw) = << >>
     THEN /\ http' = "400"
          /\ UNCHANGED pc
          /\ UNCHANGED audio_vars
     ELSE /\ pc' = [pc EXCEPT ![t] = "tts_save"]
          /\ tts' = [tts EXCEPT ![t] = gTTS(strip(raw))]
          /\ UNCHANGED << http, clock, audio_files, audio_log >>
  /\ UNCHANGED << program, topics_df, groundtruth_df, question_embeddings,
                  tie_order, use_llm, llm_available, call, retrieved, ret,
                  run_idx, type_stats, run_errors, remembered, failed_before,
                  matched >>
  /\ UNCHANGED alexa_vars
  /\ UNCHANGED voice_vars

\* a second of wall-clock time passes
tick ==
  /\ program = "app"
  /\ clock < MaxClock
  /\ clock' = clock + 1
  /\ UNCHANGED << audio_files, audio_log, tts >>
  /\ UNCHANGED rag_vars
  /\ UNCHANGED alexa_vars
  /\ UNCHANGED voice_vars

\* the question spoken to the app while its audio files are followed: a
\* Known one, answered without the backend
VoiceTexts ==
  { "q2" }

\* the tables the Flask app is started on
AppTables ==
  { << TopicsA, GroundtruthB >> }

\* the questions posted to the app: one per classification, and blanks
AppTexts ==
  { "q1", "q2", "q4", "(blanks)" }

\* what ollama.chat does for the app: it raises, or returns a blank or a
\* non-blank text
AppBackendResponses ==
  { response \in BackendResponses :
       \/ response.kind = "raise"
       \/ response.kind = "text" /\ Len(response.content) = 1 }

\* process_voice_query, step 1: start_recording, sleep, stop_recording.
\* The sound device fails, or nothing was captured (stop_recording returns
\* None and the method returns), or temp_recording.wav is written
voice_record(outcome) ==
  /\ program = "voice_rag_system"
  /\ voice_pc = "idle"
  /\ pc["t1"] = "idle"
  /\ voice_trace' = << "record" >>
  /\ voice_question' = ""
  /\ CASE outcome = "raise" ->
            /\ voice_pc' = "idle"
            /\ voice_caller' = "none"
            /\ voice_result' = "error"
            /\ voice_files' = voice_files
       [] outcome = "no_audio" ->
            /\ voice_pc' = "idle"
            /\ voice_caller' = "none"
            /\ voice_result' = "no_audio"
            /\ voice_files' = voice_files
       [] outcome = "captured" ->
            /\ voice_pc' = "transcribe"
            /\ voice_caller' = "process_voice_query"
            /\ voice_result' = "none"
            /\ voice_files' = voice_files \cup { TEMP_RECORDING }
  /\ UNCHANGED rag_vars
  /\ UNCHANGED alexa_vars
  /\ UNCHANGED audio_vars

\* step 2: transcribe_audio; whisper returns the text `raw` or raises
voice_transcribe(raw, ok) ==
  /\ program = "voice_rag_system"
  /\ voice_pc = "transcribe"
  /\ IF ok
     THEN /\ voice_pc' = "answer"
          /\ voice_question' = strip_text(raw)
          /\ voice_trace' = Append(voice_trace, "transcribe")
          /\ UNCHANGED << voice_caller, voice_files, voice_result >>
     ELSE VoiceFails("transcribe")
  /\ UNCHANGED rag_vars
  /\ UNCHANGED alexa_vars
  /\ UNCHANGED audio_vars

\* interactive_mode reads a command that is neither 'q' nor 'v' nor empty:
\* a question typed, which it passes on to generate_answer
interactive_mode_text(raw) ==
  /\ program = "voice_rag_system"
  /\ voice_pc = "idle"
  /\ pc["t1"] = "idle"
  /\ strip_text(raw) # "(empty)"
  /\ voice_pc' = "answer"
  /\ voice_caller' = "interactive_mode"
  /\ voice_question' = strip_text(raw)
  /\ UNCHANGED << voice_files, voice_trace, voice_result >>
  /\ UNCHANGED rag_vars
  /\ UNCHANGED alexa_vars
  /\ UNCHANGED audio_vars

\* generate_answer, the call of rag_system.answer_question, as step 3 of
\* process_voice_query or in the text branch of interactive_mode
voice_generate_answer ==
  /\ program = "voice_rag_system"
  /\ voice_pc = "answer"
  /\ AnswerQuestion("t1", voice_caller, voice_question)

\* generate_answer(question) called on the system by main(), which does
\* nothing else with it
main_generate_answer(question) ==
  /\ program = "voice_rag_system"
  /\ voice_pc = "idle"
  /\ AnswerQuestion("t1", "main", question)

\* text_to_speech(answer): gTTS refuses an answer without text and its
\* request may fail, otherwise temp_response.mp3 is written
voice_text_to_speech(tts_ok) ==
  /\ program = "voice_rag_system"
  /\ voice_pc = "text_to_speech"
  /\ IF tts_ok /\ ~NoTextToSpeak(ret.answer)
     THEN /\ voice_pc' = "play"
          /\ voice_files' = voice_files \cup { TEMP_RESPONSE }
          /\ voice_trace' = IF voice_caller = "process_voice_query"
                            THEN Append(voice_trace, "text_to_speech")
                            ELSE voice_trace
          /\ UNCHANGED << voice_caller, voice_result, voice_question >>
     ELSE StepRaised("text_to_speech")
  /\ UNCHANGED rag_vars
  /\ UNCHANGED alexa_vars
  /\ UNCHANGED audio_vars

\* play_audio, which catches its own failure
voice_play(played) ==
  /\ program = "voice_rag_system"
  /\ voice_pc = "play"
  /\ StepDone(IF played THEN "play" ELSE "play failed", "cleanup")
  /\ UNCHANGED rag_vars
  /\ UNCHANGED alexa_vars
  /\ UNCHANGED audio_vars

\* the clean-up: at the end of the try block of process_voice_query both
\* files are removed and the result is returned; the text branch of
\* interactive_mode removes the response file
voice_cleanup ==
  /\ program = "voice_rag_system"
  /\ voice_pc = "cleanup"
  /\ voice_pc' = "idle"
  /\ voice_caller' = "none"
  /\ IF voice_caller = "process_voice_query"
     THEN /\ voice_files' = voice_files \ { TEMP_RECORDING, TEMP_RESPONSE }
          /\ voice_trace' = Append(voice_trace, "cleanup")
          /\ voice_result' = "completed"
     ELSE /\ voice_files' = voice_files \ { TEMP_RESPONSE }
          /\ UNCHANGED << voice_trace, voice_result >>
  /\ UNCHANGED voice_question
  /\ UNCHANGED rag_vars
  /\ UNCHANGED alexa_vars
  /\ UNCHANGED audio_vars

\* what whisper hears
VoiceTranscriptions ==
  { "q1", "q2", "q4", "(blanks)" }

\* the questions typed in interactive_mode and those main() asks: one per
\* classification
TypedQuestions ==
  { "q1", "q2", "q4" }

\* VoiceRAGSystem(use_llm) in an empty working directory
VoiceInit ==
  /\ InitOf({ "voice_rag_system" }, AppTables)
  /\ tie_order = "index"

VoiceNext ==
  \/ \E outcome \in { "raise", "no_audio", "captured" } : voice_record(outcome)
  \/ \E raw \in VoiceTranscriptions, ok \in BOOLEAN : voice_transcribe(raw, ok)
  \/ \E raw \in TypedQuestions \cup BlankTexts : interactive_mode_text(raw)
  \/ voice_generate_answer
  \/ \E question \in TypedQuestions : main_generate_answer(question)
  \/ \E response \in AppBackendResponses : ollama_chat_returns("t1", response)
  \/ \E tts_ok \in BOOLEAN : voice_text_to_speech(tts_ok)
  \/ \E played \in BOOLEAN : voice_play(played)
  \/ voice_cleanup

VoiceSpec ==
  VoiceInit /\ [][VoiceNext]_vars

\* what whisper hears in the uploads: a question whose answer is
\* generated, and silence
AppVoiceTexts ==
  { "q1", "(blanks)" }

\* the texts posted to /api/tts beside the questions: one to speak, one of
\* blanks
AppTtsTexts ==
  { << "a" >>, << " " >> }

\* no two rows of TopicsA score the same for any text, so the order of
\* equal values does not show
AppInit ==
  /\ InitOf({ "app" }, AppTables)
  /\ tie_order = "index"

AppNext ==
  \/ \E template_found \in BOOLEAN : index(template_found)
  \/ \E t \in Threads, raw \in AppTexts : ask_text(t, raw)
  \/ \E t \in Threads, upload \in Uploads, raw \in AppVoiceTexts :
        ask_voice(t, upload, raw)
  \/ \E t \in Threads, response \in AppBackendResponses :
        ollama_chat_returns(t, response)
  \/ \E t \in Threads, raw \in AppTtsTexts : text_to_speech(t, raw)
  \/ \E t \in Threads, tts_ok \in BOOLEAN : tts_save_returns(t, tts_ok)
  \/ \E audio_id \in 0..MaxClock : get_audio_route(audio_id)

\* the Flask app, two requests at a time
AppSpec ==
  AppInit /\ [][AppNext]_vars

\* the app over some seconds: voice questions and text-to-speech requests
AudioNext ==
  \/ \E template_found \in BOOLEAN : index(template_found)
  \/ \E upload \in Uploads, raw \in VoiceTexts : ask_voice("t1", upload, raw)
  \/ \E t \in Threads, raw \in TtsTexts : text_to_speech(t, raw)
  \/ \E t \in Threads, tts_ok \in BOOLEAN : tts_save_returns(t, tts_ok)
  \/ \E audio_id \in 0..MaxClock : get_audio_route(audio_id)
  \/ tick

AudioSpec ==
  AppInit /\ [][AudioNext]_vars

(***************************************************************************)
(* Vocabulary of the properties, read off the tables directly.             *)
(***************************************************************************)
\* the topic the query's best match resolves to
MatchedTopic(query) ==
  find_matching_topic(query).topic_id

\* positions of the topic's rows in the groundtruth table
RowsOfTopic(topic_id) ==
  { i \in 1..Len(groundtruth_df) : groundtruth_df[i].topic_id = topic_id }

\* the topic's first row in stored order
FirstRowOfTopic(topic_id) ==
  groundtruth_df[CHOOSE i \in RowsOfTopic(topic_id) :
                    \A j \in RowsOfTopic(topic_id) : i <= j]

BackendFailed(response) ==
  response.kind \in { "raise", "no_message", "no_content", "none_content" }

Blank(text) ==
  \A i \in 1..Len(text) : text[i] \in WHITESPACE

(***************************************************************************)
(* C1  A query whose best-matching topic has a groundtruth row and whose   *)
(* first row has relevance 2 is answered 'Known' with exactly the first    *)
(* stored passage of the topic, for every setting of use_llm; such a       *)
(* query never waits for the backend.                                      *)
(***************************************************************************)
KnownTopic(query) ==
  /\ RowsOfTopic(MatchedTopic(query)) # { }
  /\ FirstRowOfTopic(MatchedTopic(query)).relevance_judgment = 2

C1_KnownAnswerIsFirstPassage ==
  /\ (ret.status # "none" /\ KnownTopic(ret.query)) =>
        /\ ret.status = "returned"
        /\ ret.question_type = "Known"
        /\ ret.answer = FirstRowOfTopic(MatchedTopic(ret.query)).passage
  /\ \A t \in Threads : pc[t] = "ollama_chat" => ~KnownTopic(call[t].query)

\* a Known answer longer than the template budget, backend enabled
C1_Witness ==
  /\ ret.status = "returned"
  /\ KnownTopic(ret.query)
  /\ LLMEnabled
  /\ Len(ret.answer) > 500

(***************************************************************************)
(* C2  A query whose best-matching topic has no groundtruth row gets       *)
(* 'Out-of-KB' from search with empty passages, scores and passage_ids,    *)
(* whatever the similarity of the match.                                   *)
(***************************************************************************)
C2_AbsentTopicIsOutOfKB ==
  (retrieved.query # "" /\ RowsOfTopic(MatchedTopic(retrieved.query)) = { }) =>
     /\ retrieved.question_type = "Out-of-KB"
     /\ retrieved.passages = << >>
     /\ retrieved.scores = << >>
     /\ retrieved.passage_ids = << >>

\* the absent topic was matched with the lowest similarity there is
C2_Witness ==
  /\ retrieved.query # ""
  /\ RowsOfTopic(MatchedTopic(retrieved.query)) = { }
  /\ retrieved.question_type = "Out-of-KB"
  /\ find_matching_topic(retrieved.query).similarity = -25

\* the same, matched with the highest similarity there is
C2_WitnessHigh ==
  /\ retrieved.query # ""
  /\ RowsOfTopic(MatchedTopic(retrieved.query)) = { }
  /\ retrieved.question_type = "Out-of-KB"
  /\ find_matching_topic(retrieved.query).similarity = 25

(***************************************************************************)
(* C3  answer_question never propagates a failure of the backend call:     *)
(* whether ollama.chat raises or its response lacks message or content,    *)
(* the call returns an answer together with a classification.              *)
(***************************************************************************)
C3_BackendFailureNeverPropagates ==
  /\ ret.status # "raised"
  /\ (ret.status # "none" /\ BackendFailed(ret.response)) =>
        /\ ret.status = "returned"
        /\ ret.question_type \in { "Known", "Inferred", "Unknown", "Out-of-KB" }
        /\ ret.answer \in Seq(STRING)

\* a call returned although the response had no 'message'
C3_Witness ==
  /\ ret.status = "returned"
  /\ ret.response.kind = "no_message"

(***************************************************************************)
(* C4  When the backend call fails, an Inferred query gets exactly the     *)
(* template answer for the same passages, and an Out-of-KB query exactly   *)
(* the refusal returned when no backend is configured.                     *)
(***************************************************************************)
C4_FailureFallsBackToDeterministicAnswer ==
  (ret.status = "returned" /\ BackendFailed(ret.response)) =>
     /\ ret.question_type = "Inferred" =>
           ret.answer = template_integrate(ret.query, ret.passages)
     /\ ret.question_type = "Out-of-KB" =>
           ret.answer = OUT_OF_KB_REFUSAL

\* the backend raised while an Inferred query was answered
C4_Witness ==
  /\ ret.status = "returned"
  /\ ret.response.kind = "raise"
  /\ ret.question_type = "Inferred"
  /\ ret.passages # << >>

\* the backend raised while an Out-of-KB query was answered
C4_WitnessOutOfKB ==
  /\ ret.status = "returned"
  /\ ret.response.kind = "raise"
  /\ ret.question_type = "Out-of-KB"

(***************************************************************************)
(* C5  An empty or whitespace-only response of the backend counts as a     *)
(* failure: the answer is the deterministic fallback and is never empty.   *)
(***************************************************************************)
C5_BlankResponseIsAFailure ==
  (ret.status = "returned" /\ ret.response.kind = "text"
                           /\ Blank(ret.response.content)) =>
     /\ ret.answer # << >>
     /\ ret.question_type = "Inferred" =>
           ret.answer = template_integrate(ret.query, ret.passages)
     /\ ret.question_type = "Out-of-KB" =>
           ret.answer = OUT_OF_KB_REFUSAL

(***************************************************************************)
(* C6  A topic with passages whose first row's relevance is neither 1 nor  *)
(* 2 is reported 'Unknown' and answered with the Inferred strategy: its    *)
(* passages are combined (template or backend), never the refusal.         *)
(***************************************************************************)
UnknownTopic(query) ==
  /\ RowsOfTopic(MatchedTopic(query)) # { }
  /\ FirstRowOfTopic(MatchedTopic(query)).relevance_judgment \notin { 1, 2 }

C6_UnknownAnsweredAsInferred ==
  /\ (ret.status = "returned" /\ UnknownTopic(ret.query)) =>
        /\ ret.question_type = "Unknown"
        /\ ret.answer # OUT_OF_KB_REFUSAL
        /\ ret.via \in { "template", "llm" }
        /\ ret.via = "template" =>
              ret.answer = template_integrate(ret.query, ret.passages)
  /\ \A t \in Threads :
        (pc[t] = "ollama_chat" /\ UnknownTopic(call[t].query)) =>
           /\ call[t].prompt.mode = "inferred"
           /\ call[t].prompt.passages = call[t].passages

(***************************************************************************)
(* C7  The classification answer_question returns is always one of Known,  *)
(* Inferred and Out-of-KB, and the type_stats counter of                   *)
(* generate_groundtruth_runs never meets a fourth value.                   *)
(***************************************************************************)
C7_ThreeClassifications ==
  /\ ret.status = "returned" =>
        ret.question_type \in { "Known", "Inferred", "Out-of-KB" }
  /\ run_errors = 0

(***************************************************************************)
(* C8  The template answer is the selected passages joined by one          *)
(* separator; longer than 500 characters it is cut to exactly 500, ending  *)
(* in '...' after the first 497 characters of the joined text; otherwise   *)
(* it is the joined text unchanged.  It never exceeds 500 characters.      *)
(***************************************************************************)
\* the first two passages with one blank between them
JoinedTopTwo(passages) ==
  IF Len(passages) = 0 THEN << >>
  ELSE IF Len(passages) = 1 THEN passages[1]
  ELSE passages[1] \o << " " >> \o passages[2]

C8_TemplateTruncation ==
  ret.via = "template" =>
     LET joined == JoinedTopTwo(ret.passages)
         answer == ret.answer
     IN  /\ Len(answer) <= 500
         /\ Len(joined) > 500 =>
               /\ Len(answer) = 500
               /\ SubSeq(answer, 498, 500) = << ".", ".", "." >>
               /\ SubSeq(answer, 1, 497) = SubSeq(joined, 1, 497)
         /\ Len(joined) <= 500 => answer = joined

\* passages of 300 and 400 characters, joined and cut
C8_Witness ==
  /\ ret.via = "template"
  /\ Len(ret.passages) >= 2
  /\ Len(ret.passages[1]) = 300
  /\ Len(ret.passages[2]) = 400
  /\ Len(ret.answer) = 500

\* a joined text of exactly 500 characters, returned whole
C8_WitnessBoundary ==
  /\ ret.via = "template"
  /\ Len(JoinedTopTwo(ret.passages)) = 500
  /\ ret.answer = JoinedTopTwo(ret.passages)

(***************************************************************************)
(* C9  In template mode the answer to an Inferred query is built from the  *)
(* first two passages of the matched topic in stored order only: other     *)
(* third and fourth passages, or none, give the same answer.               *)
(***************************************************************************)
\* what may stand in the place of the third and fourth passages
OtherTails ==
  { << >>,
    << PassageText(7, 1) >>,
    << PassageText(7, 1), PassageText(9, 2) >>,
    << PassageText(600, 3), PassageText(1, 4) >> }

C9_TemplateUsesFirstTwoPassages ==
  (ret.status = "returned" /\ ~LLMEnabled /\ ret.question_type = "Inferred") =>
     LET topic    == MatchedTopic(ret.query)
         rows     == RowsOfTopic(topic)
         stored   == [i \in 1..Cardinality(rows) |->
                        groundtruth_df[CHOOSE r \in rows :
                           Cardinality({ s \in rows : s < r }) = i - 1].passage]
         firstTwo == SubSeq(stored, 1, Min(2, Len(stored)))
     IN  /\ ret.answer = JoinedTopTwo(firstTwo)
            \/ /\ Len(JoinedTopTwo(firstTwo)) > 500
               /\ ret.answer = SubSeq(JoinedTopTwo(firstTwo), 1, 497)
                                  \o << ".", ".", "." >>
         /\ Len(firstTwo) = 2 =>
               \A tail \in OtherTails :
                  template_integrate(ret.query, firstTwo \o tail) = ret.answer

\* four stored passages, the answer shorter than the budget
C9_Witness ==
  /\ ret.status = "returned"
  /\ ~LLMEnabled
  /\ ret.question_type = "Inferred"
  /\ Cardinality(RowsOfTopic(MatchedTopic(ret.query))) >= 4
  /\ Len(ret.passages) = 4
  /\ Len(ret.answer) < 500

(***************************************************************************)
(* C10  When several canonical questions have the same highest similarity  *)
(* to the query, find_matching_topic returns the one that comes first in   *)
(* the topics table.                                                       *)
(***************************************************************************)
\* the rows of the topics table with the highest similarity to the query
BestRows(query) ==
  { i \in 1..Len(topics_df) :
       \A j \in 1..Len(topics_df) :
          Similarities(query)[j] <= Similarities(query)[i] }

C10_TieGoesToFirstRow ==
  retrieved.query # "" =>
     LET first == CHOOSE i \in BestRows(retrieved.query) :
                     \A j \in BestRows(retrieved.query) : i <= j
     IN  /\ find_matching_topic(retrieved.query).question_id
              = topics_df[first].question_id
         /\ find_matching_topic(retrieved.query).topic_id
              = topics_df[first].topic_id

(***************************************************************************)
(* C11  For a non-empty corpus find_matching_topic always returns the      *)
(* triple of one corpus row whose score is at least the score of every     *)
(* row; no threshold turns a low best score into 'no match'.               *)
(***************************************************************************)
C11_AlwaysABestMatch ==
  retrieved.query # "" =>
     LET match == find_matching_topic(retrieved.query)
         score(i) == Dot(question_embeddings[i], encode(retrieved.query))
     IN  /\ \E i \in 1..Len(topics_df) :
               /\ match.topic_id = topics_df[i].topic_id
               /\ match.question_id = topics_df[i].question_id
               /\ match.similarity = score(i)
         /\ \A j \in 1..Len(topics_df) : score(j) <= match.similarity

\* the only row of the corpus is returned with the lowest score there is
C11_Witness ==
  /\ retrieved.query # ""
  /\ Len(topics_df) = 1
  /\ find_matching_topic(retrieved.query).question_id = "Q1"
  /\ find_matching_topic(retrieved.query).similarity = -25

\* the best of six rows is well below the score of a self-match
C11_WitnessSixRows ==
  /\ retrieved.query # ""
  /\ Len(topics_df) = 6
  /\ find_matching_topic(retrieved.query).similarity = 20

(***************************************************************************)
(* C12  For a topic with n >= 1 rows search(query, k) returns passages,    *)
(* scores and passage_ids of length min(k, n): the first min(k, n) rows    *)
(* of the topic in stored order, each id beside its passage, every score   *)
(* 1.0.                                                                    *)
(***************************************************************************)
\* the positions of the topic's rows, in stored order
StoredRows(topic_id) ==
  LET rows == RowsOfTopic(topic_id)
  IN  [i \in 1..Cardinality(rows) |->
         CHOOSE r \in rows : Cardinality({ s \in rows : s < r }) = i - 1]

FirstRowsOfTopic(found, topic_id, k) ==
  LET stored == StoredRows(topic_id)
      n      == Len(stored)
      m      == IF k < n THEN k ELSE n
  IN  /\ Len(found.passages) = m
      /\ Len(found.scores) = m
      /\ Len(found.passage_ids) = m
      /\ \A i \in 1..m :
            /\ found.passages[i] = groundtruth_df[stored[i]].passage
            /\ found.passage_ids[i] = groundtruth_df[stored[i]].passage_id
            /\ found.scores[i] = 1

C12_FirstKRowsInStoredOrder ==
  (retrieved.query # "" /\ RowsOfTopic(MatchedTopic(retrieved.query)) # { }) =>
     /\ FirstRowsOfTopic(retrieved, MatchedTopic(retrieved.query), 4)
     /\ \A k \in 0..MaxK :
           FirstRowsOfTopic(search(retrieved.query, k),
                            MatchedTopic(retrieved.query), k)

\* a topic of five rows whose rows are cut to four
C12_Witness ==
  /\ retrieved.query # ""
  /\ Cardinality(RowsOfTopic(MatchedTopic(retrieved.query))) = 5
  /\ Len(retrieved.passages) = 4
  /\ retrieved.passage_ids = << "P004", "P005", "P006", "P007" >>

\* rows of the topic that are not adjacent in the table
C12_WitnessInterleaved ==
  /\ retrieved.query # ""
  /\ retrieved.passage_ids = << "P001", "P003" >>

(***************************************************************************)
(* C13  With the generative backend disabled, two calls of answer_question *)
(* with the same query text on one system, whatever was answered between   *)
(* them, return the same answer, question_type and passages.               *)
(***************************************************************************)
C13_SameQuerySameAnswer ==
  (/\ ~LLMEnabled
   /\ remembered.result.status = "returned"
   /\ ret.status = "returned"
   /\ ret.query = remembered.result.query) =>
     /\ ret.answer = remembered.result.answer
     /\ ret.question_type = remembered.result.question_type
     /\ ret.passages = remembered.result.passages

\* the query of an earlier call is answered again after another query
C13_Witness ==
  /\ ~LLMEnabled
  /\ remembered.result.status = "returned"
  /\ remembered.between
  /\ ret.status = "returned"
  /\ ret.query = remembered.result.query
  /\ ret.passages # << >>

\* the same, the backend being switched off rather than unavailable, for a
\* query that is refused
C13_WitnessRefused ==
  /\ ~use_llm
  /\ remembered.between
  /\ ret.status = "returned"
  /\ ret.query = remembered.result.query
  /\ ret.question_type = "Out-of-KB"

(***************************************************************************)
(* C14  An empty or blank query is rejected before any matching: on no     *)
(* entry path (answer_question called directly, ask_text, ask_voice with a *)
(* blank transcription) is the matcher invoked with it, and no answer or   *)
(* classification is produced for it.                                      *)
(***************************************************************************)
C14_BlankQueryIsRejected ==
  /\ retrieved.query \notin BlankTexts
  /\ ret.query \notin BlankTexts
  /\ \A t \in Threads : call[t].query \notin BlankTexts

(***************************************************************************)
(* C15  Every answer_question call eventually returns: the wait for the    *)
(* generation backend is bounded, so a call that has entered ollama.chat   *)
(* comes back, with the fallback answer if the backend never responds.     *)
(***************************************************************************)
C15_EveryCallReturns ==
  \A t \in Threads : (pc[t] = "ollama_chat") ~> (pc[t] = "idle")

(***************************************************************************)
(* C16  No query mutates shared state: every step of the app leaves the    *)
(* topics table, the groundtruth table, the question embeddings, use_llm   *)
(* and llm_available as they were, and under every interleaving of two     *)
(* concurrent requests each query has the classification and the passages  *)
(* it gets when run alone.                                                 *)
(***************************************************************************)
\* classification and passages of the query run alone
AsRunAlone(query, question_type, passages) ==
  /\ question_type = search(query, K).question_type
  /\ passages = search(query, K).passages

QueriesAreIsolated ==
  /\ \A t \in Threads :
        pc[t] = "ollama_chat" =>
           AsRunAlone(call[t].query, call[t].question_type, call[t].passages)
  /\ ret.status = "returned" =>
        AsRunAlone(ret.query, ret.question_type, ret.passages)

C16_NoQueryMutatesSharedState ==
  /\ []QueriesAreIsolated
  /\ [][UNCHANGED << topics_df, groundtruth_df, question_embeddings,
                     use_llm, llm_available >>]_vars

\* two requests for different queries wait in ollama.chat at the same time
C16_Witness ==
  /\ pc["t1"] = "ollama_chat"
  /\ pc["t2"] = "ollama_chat"
  /\ call["t1"].query # call["t2"].query
  /\ call["t1"].question_type # call["t2"].question_type

\* a request is answered while the other thread is inside its own
C16_WitnessOvertaken ==
  /\ pc["t1"] = "ollama_chat"
  /\ ret.status = "returned"
  /\ ret.query # call["t1"].query
  /\ ret.question_type = "Known"

(***************************************************************************)
(* C17  The prompt sent to the generation backend contains the question    *)
(* text plus at most 2 passages for an Inferred query, and the question    *)
(* text with no passage at all for an Out-of-KB query.                     *)
(***************************************************************************)
C17_PromptHasAtMostTwoPassages ==
  \A t \in Threads :
     pc[t] = "ollama_chat" =>
        /\ call[t].prompt.question = call[t].query
        /\ call[t].question_type = "Inferred" =>
              Len(call[t].prompt.passages) <= 2
        /\ call[t].question_type = "Out-of-KB" =>
              call[t].prompt.passages = << >>

(***************************************************************************)
(* C18  Self-match: for every canonical question Q of the corpus, matching *)
(* Q's own stored text returns Q's topic_id, with the maximum possible     *)
(* similarity: no corpus entry scores strictly higher against Q's vector   *)
(* than Q itself.                                                          *)
(***************************************************************************)
\* the score of row j for the stored text of row i
SelfScore(i, j) ==
  Dot(encode(topics_df[j].question), encode(topics_df[i].question))

C18_SelfMatch ==
  \A i \in 1..Len(topics_df) :
     LET match == find_matching_topic(topics_df[i].question)
     IN  /\ match.topic_id = topics_df[i].topic_id
         /\ match.similarity = SelfScore(i, i)
         /\ \A j \in 1..Len(topics_df) : SelfScore(i, j) <= SelfScore(i, i)

(***************************************************************************)
(* C18 (amended)  Matching Q's own stored text returns a row whose         *)
(* question has the embedding of Q, with the maximum possible similarity   *)
(* (no corpus entry scores strictly higher than Q itself); the topic_id    *)
(* is Q's own whenever no row of another topic has the same embedding.     *)
(***************************************************************************)
\* the rows whose question has the embedding of row i's
Twins(i) ==
  { j \in 1..Len(topics_df) :
       encode(topics_df[j].question) = encode(topics_df[i].question) }

C18_SelfMatchUpToTwins ==
  \A i \in 1..Len(topics_df) :
     LET match == find_matching_topic(topics_df[i].question)
     IN  /\ \E j \in Twins(i) :
               /\ match.topic_id = topics_df[j].topic_id
               /\ match.question_id = topics_df[j].question_id
         /\ match.similarity = SelfScore(i, i)
         /\ \A j \in 1..Len(topics_df) : SelfScore(i, j) <= SelfScore(i, i)
         /\ (\A j \in Twins(i) : topics_df[j].topic_id = topics_df[i].topic_id)
               => match.topic_id = topics_df[i].topic_id

\* the runs script has searched the stored text of a row that has no twin
\* and of a row that has one
C18_Witness ==
  /\ program = "generate_groundtruth_runs"
  /\ run_idx >= 2
  /\ retrieved.query = topics_df[run_idx].question
  /\ Twins(run_idx) = { run_idx }
  /\ Twins(1) # { 1 }
  /\ MatchedTopic(retrieved.query) = topics_df[run_idx].topic_id

\* the stored text of a row is matched to its twin, of another topic
C18_WitnessTwin ==
  /\ retrieved.query # ""
  /\ \E i \in 1..Len(topics_df) :
        /\ retrieved.query = topics_df[i].question
        /\ MatchedTopic(retrieved.query) # topics_df[i].topic_id

(***************************************************************************)
(* C19  With the generative backend disabled or unavailable, every query   *)
(* whose matched topic has no passages gets the classification             *)
(* 'Out-of-KB', the fixed refusal string as its answer and an empty list   *)
(* of source passages.                                                     *)
(***************************************************************************)
C19_NoPassagesIsRefused ==
  (/\ ~LLMEnabled
   /\ ret.status = "returned"
   /\ RowsOfTopic(MatchedTopic(ret.query)) = { }) =>
     /\ ret.question_type = "Out-of-KB"
     /\ ret.answer = REFUSAL_HEAD \o REFUSAL_TAIL
     /\ ret.passages = << >>

\* the backend is switched off and the matched topic has no row
C19_Witness ==
  /\ ~use_llm
  /\ ret.status = "returned"
  /\ RowsOfTopic(MatchedTopic(ret.query)) = { }
  /\ ret.via = "refusal"

\* the backend is switched on but failed the probe
C19_WitnessUnavailable ==
  /\ use_llm
  /\ llm_available = "False"
  /\ ret.status = "returned"
  /\ RowsOfTopic(MatchedTopic(ret.query)) = { }
  /\ ret.via = "refusal"

(***************************************************************************)
(* C20  Whether the generative backend is attempted is fixed when the      *)
(* system is constructed (use_llm and the startup probe) and is the same   *)
(* for every later query: no step changes use_llm or llm_available, not    *)
(* even a failed backend call; a call waits for the backend only on a      *)
(* system constructed with the backend enabled and available; and only a   *)
(* system without it answers a query from the template or the refusal      *)
(* without having called the backend.                                      *)
(***************************************************************************)
BackendChoiceIsFollowed ==
  /\ \A t \in Threads : pc[t] = "ollama_chat" => LLMEnabled
  /\ (/\ ret.status = "returned"
      /\ ret.via \in { "template", "refusal" }
      /\ ret.response = NoResponse) => ~LLMEnabled

C20_BackendChoiceIsFixed ==
  /\ []BackendChoiceIsFollowed
  /\ [][UNCHANGED << use_llm, llm_available >>]_vars

\* after a failed backend call, the next query is sent to the backend again
C20_Witness ==
  /\ failed_before
  /\ pc["t1"] = "ollama_chat"
  /\ LLMEnabled

\* the probe failed at construction: a query that needs generation is
\* answered from the template, the backend not being called
C20_WitnessProbeFailed ==
  /\ use_llm
  /\ llm_available = "False"
  /\ ret.status = "returned"
  /\ ret.via = "template"
  /\ ret.response = NoResponse

(***************************************************************************)
(* C21  The similarity score only selects the topic: any two queries that  *)
(* match the same topic get the same classification, passages,             *)
(* passage_ids and scores from search, whatever their similarity scores,   *)
(* and the passages are in stored order with the score 1.0 each, never     *)
(* reordered or rescored by similarity.                                    *)
(***************************************************************************)
\* the queries that match the topic of the last search
SameTopicQueries ==
  { query \in Texts : MatchedTopic(query) = MatchedTopic(retrieved.query) }

C21_SimilarityOnlySelectsTopic ==
  retrieved.query # "" =>
     /\ \A query \in SameTopicQueries :
           LET found == search(query, K)
           IN  /\ found.question_type = retrieved.question_type
               /\ found.passages = retrieved.passages
               /\ found.passage_ids = retrieved.passage_ids
               /\ found.scores = retrieved.scores
     /\ \A i \in 1..Len(retrieved.passages) :
           /\ retrieved.scores[i] = 1
           /\ retrieved.passages[i] =
                 groundtruth_df[StoredRows(
                    MatchedTopic(retrieved.query))[i]].passage

\* another query matches the topic of the last search with another score,
\* and the topic has several passages
C21_Witness ==
  /\ retrieved.query # ""
  /\ Len(retrieved.passages) >= 2
  /\ \E query \in SameTopicQueries :
        find_matching_topic(query).similarity #
           find_matching_topic(retrieved.query).similarity

(***************************************************************************)
(* C22  An empty corpus or an empty knowledge base is a fatal              *)
(* configuration error at startup: no query is ever served by a system     *)
(* built on an empty topics table or an empty groundtruth table.           *)
(***************************************************************************)
C22_EmptyTablesAreFatal ==
  (topics_df = << >> \/ groundtruth_df = << >>) =>
     /\ retrieved.query = ""
     /\ ret.status = "none"
     /\ \A t \in Threads : pc[t] = "idle"
     /\ run_idx = 0

(***************************************************************************)
(* C23  For top_k > 1 on a corpus of n questions, find_matching_topic      *)
(* returns a list of min(top_k, n) triples of distinct corpus rows, in     *)
(* non-increasing order of score, whose first element is the triple that   *)
(* top_k = 1 returns for the same query.                                   *)
(***************************************************************************)
\* the triple of row i for the query
TripleOfRow(i, query) ==
  [topic_id    |-> topics_df[i].topic_id,
   question_id |-> topics_df[i].question_id,
   similarity  |-> Dot(encode(topics_df[i].question), encode(query))]

\* the list is made of the triples of pairwise different rows
FromDistinctRows(results, query) ==
  \E rows \in [1..Len(results) -> 1..Len(topics_df)] :
     /\ \A j \in 1..Len(results) : results[j] = TripleOfRow(rows[j], query)
     /\ \A j, l \in 1..Len(results) : j # l => rows[j] # rows[l]

C23_RankedListOfBestMatches ==
  matched.top_k > 1 =>
     LET results == matched.results
         n       == Len(topics_df)
     IN  /\ Len(results) = IF matched.top_k < n THEN matched.top_k ELSE n
         /\ FromDistinctRows(results, matched.query)
         /\ \A j \in 1..(Len(results) - 1) :
               results[j].similarity >= results[j + 1].similarity
         /\ results[1] = find_matching_topic_top_k(matched.query, 1)

\* three of six rows are asked for
C23_Witness ==
  /\ matched.top_k = 3
  /\ Len(topics_df) = 6
  /\ Len(matched.results) = 3
  /\ matched.results[1].similarity > matched.results[3].similarity

\* more rows are asked for than the corpus has
C23_WitnessWholeCorpus ==
  /\ matched.top_k > Len(topics_df)
  /\ Len(topics_df) > 1
  /\ Len(matched.results) = Len(topics_df)

(***************************************************************************)
(* C24  The classification of a topic depends only on the relevance value  *)
(* of its first groundtruth row in stored order: when the rows of a topic  *)
(* carry different relevance values, the later rows affect neither the     *)
(* classification nor the answer strategy (first row 2 and later rows 1    *)
(* gives Known and the first passage verbatim).                            *)
(***************************************************************************)
ClassOfRelevance(relevance) ==
  CASE relevance = 2 -> "Known"
    [] relevance = 1 -> "Inferred"
    [] OTHER         -> "Unknown"

\* the rows of the topic do not all carry the relevance of the first
MixedTopic(topic_id) ==
  \E i \in RowsOfTopic(topic_id) :
     groundtruth_df[i].relevance_judgment #
        FirstRowOfTopic(topic_id).relevance_judgment

C24_FirstRowDecides ==
  /\ (retrieved.query # "" /\ RowsOfTopic(MatchedTopic(retrieved.query)) # { })
        => retrieved.question_type =
              ClassOfRelevance(FirstRowOfTopic(
                 MatchedTopic(retrieved.query)).relevance_judgment)
  /\ (ret.status = "returned" /\ RowsOfTopic(MatchedTopic(ret.query)) # { })
        => LET first == FirstRowOfTopic(MatchedTopic(ret.query))
           IN  /\ ret.question_type = ClassOfRelevance(first.relevance_judgment)
               /\ first.relevance_judgment = 2 <=> ret.via = "known"
               /\ first.relevance_judgment = 2 => ret.answer = first.passage

\* first row 2, a later row 1: Known, the first passage verbatim
C24_Witness ==
  /\ ret.status = "returned"
  /\ RowsOfTopic(MatchedTopic(ret.query)) # { }
  /\ MixedTopic(MatchedTopic(ret.query))
  /\ FirstRowOfTopic(MatchedTopic(ret.query)).relevance_judgment = 2
  /\ ret.question_type = "Known"
  /\ ret.answer = FirstRowOfTopic(MatchedTopic(ret.query)).passage

\* first row neither 1 nor 2, a later row 1
C24_WitnessLaterInferred ==
  /\ retrieved.query # ""
  /\ RowsOfTopic(MatchedTopic(retrieved.query)) # { }
  /\ MixedTopic(MatchedTopic(retrieved.query))
  /\ retrieved.question_type = "Unknown"

(***************************************************************************)
(* C25  For a Known query the generation backend is never called, even     *)
(* with use_llm enabled and the backend available: the answer comes        *)
(* directly from the passage, so a backend that is down or slow neither    *)
(* affects nor delays a Known answer.                                      *)
(***************************************************************************)
C25_KnownNeverCallsBackend ==
  /\ \A t \in Threads :
        pc[t] = "ollama_chat" => call[t].question_type # "Known"
  /\ (ret.status # "none" /\ ret.question_type = "Known") =>
        /\ ret.status = "returned"
        /\ ret.via = "known"
        /\ ret.response = NoResponse
        /\ ret.passages # << >>
        /\ ret.answer = ret.passages[1]

\* the backend is enabled and does not answer the request of the other
\* thread, a backend call has failed before, and a Known answer is returned
C25_Witness ==
  /\ LLMEnabled
  /\ failed_before
  /\ \E t \in Threads : pc[t] = "ollama_chat" /\ ~call[t].responds
  /\ ret.status = "returned"
  /\ ret.question_type = "Known"
  /\ retrieved.query = ret.query

(***************************************************************************)
(* C26  Whenever answer_question dispatches to the Known or the Inferred   *)
(* strategy, the passage list it passes has between 1 and 4 passages, so   *)
(* the guard answers 'No answer found in knowledge base.' and 'No relevant *)
(* information found in knowledge base.' are never returned.               *)
(***************************************************************************)
C26_GuardsAreNeverTaken ==
  /\ \A t \in Threads :
        (pc[t] = "ollama_chat" /\ call[t].question_type = "Inferred") =>
           Len(call[t].passages) \in 1..4
  /\ ret.status = "returned" =>
        /\ ret.question_type \in { "Known", "Inferred" } =>
              Len(ret.passages) \in 1..4
        /\ ret.via # "guard"
        /\ ret.answer # NO_ANSWER_FOUND
        /\ ret.answer # NO_RELEVANT_INFO

\* the shortest list there is: an Inferred topic of one row, from the template
C26_Witness ==
  /\ ret.status = "returned"
  /\ ret.question_type = "Inferred"
  /\ Len(ret.passages) = 1
  /\ ret.via = "template"

\* a Known topic of three rows
C26_WitnessKnown ==
  /\ ret.status = "returned"
  /\ ret.question_type = "Known"
  /\ Len(ret.passages) = 3

(***************************************************************************)
(* C27  The outcome of the backend call changes only the answer text: the  *)
(* question_type and the source passages answer_question returns are those *)
(* search produces for the query, whether the backend succeeded, failed    *)
(* and fell back, or was not used.                                         *)
(***************************************************************************)
\* what search produces for the query, read off the tables
SearchedType(query) ==
  IF RowsOfTopic(MatchedTopic(query)) = { } THEN "Out-of-KB"
  ELSE ClassOfRelevance(FirstRowOfTopic(MatchedTopic(query)).relevance_judgment)

SearchedPassages(query) ==
  LET stored == StoredRows(MatchedTopic(query))
  IN  [i \in 1..(IF Len(stored) < 4 THEN Len(stored) ELSE 4) |->
         groundtruth_df[stored[i]].passage]

C27_BackendOnlyChangesAnswer ==
  ret.status = "returned" =>
     /\ ret.question_type = SearchedType(ret.query)
     /\ ret.passages = SearchedPassages(ret.query)
     /\ ret.via \in { "known", "template", "refusal", "llm" }

\* the backend failed and the template answered from two of four passages
C27_Witness ==
  /\ ret.status = "returned"
  /\ ret.via = "template"
  /\ BackendFailed(ret.response)
  /\ Len(ret.passages) = 4

\* the backend succeeded
C27_WitnessSucceeded ==
  /\ ret.status = "returned"
  /\ ret.via = "llm"
  /\ ret.response.kind = "text"
  /\ Len(ret.passages) = 4

\* the backend was not used
C27_WitnessNotUsed ==
  /\ ret.status = "returned"
  /\ ret.via = "template"
  /\ ret.response = NoResponse
  /\ Len(ret.passages) = 4

(***************************************************************************)
(* C28  The Alexa FallbackIntentHandler keeps one counter for the whole    *)
(* process, shared by all sessions and never reset or decremented: each of *)
(* the first 29 fallback requests handled gets a reprompt and keeps the    *)
(* session open, and the 30th and every later one, from any session, gets  *)
(* the technical-difficulties message and ends the session.                *)
(***************************************************************************)
\* the last response is that of a fallback request
FallbackAnswered ==
  alexa_response.speech \in { "not understood", "technical difficulties" }

FallbackCounterIsFollowed ==
  /\ fallback_count = fallbacks_handled
  /\ (FallbackAnswered /\ fallbacks_handled <= 29) =>
        /\ alexa_response.speech = "not understood"
        /\ alexa_response.reprompt
        /\ ~alexa_response.should_end_session
  /\ fallbacks_handled >= 30 =>
        (FallbackAnswered =>
            /\ alexa_response.speech = "technical difficulties"
            /\ ~alexa_response.reprompt
            /\ alexa_response.should_end_session)

C28_OneFallbackCounterPerProcess ==
  /\ []FallbackCounterIsFollowed
  /\ [][fallback_count' >= fallback_count]_vars

\* the thirtieth fallback request of the process, the first of its session
C28_Witness ==
  /\ fallbacks_handled = 30
  /\ alexa_response.session = "s2"
  /\ alexa_response.speech = "technical difficulties"
  /\ alexa_response.should_end_session

\* the twenty-ninth is still given a reprompt
C28_WitnessLastReprompt ==
  /\ fallbacks_handled = 29
  /\ alexa_response.speech = "not understood"
  /\ alexa_response.reprompt

(***************************************************************************)
(* C29  The audio id given to a voice answer or a text-to-speech request   *)
(* is unique: no two requests handled by ask_voice or text_to_speech get   *)
(* the same audio_id, so the file stored for a request is never            *)
(* overwritten by another and get_audio(audio_id) serves the audio of the  *)
(* request that was given the id.                                          *)
(***************************************************************************)
C29_AudioIdsAreUnique ==
  \A audio_id \in DOMAIN audio_log :
     /\ audio_log[audio_id].requests = 1
     /\ audio_log[audio_id].kept
     /\ get_audio(audio_id).status = "200"

(***************************************************************************)
(* C30  process_voice_query runs its steps in the order record,            *)
(* transcribe, answer, synthesize speech, play, clean up; if recording     *)
(* captured no audio it returns without transcribing or querying the RAG   *)
(* system; and after it returns, whether it completed or a step raised an  *)
(* error, temp_recording.wav and temp_response.mp3 no longer exist.        *)
(***************************************************************************)
\* the steps in their order; a failed playback is still the play step
VoiceStepOrder ==
  << "record", "transcribe", "answer", "text_to_speech", "play", "cleanup" >>

StepsRun ==
  [i \in 1..Len(voice_trace) |->
     IF voice_trace[i] = "play failed" THEN "play" ELSE voice_trace[i]]

C30_StepsInOrderAndFilesRemoved ==
  /\ StepsRun = SubSeq(VoiceStepOrder, 1, Len(voice_trace))
  /\ voice_result = "no_audio" => voice_trace = << "record" >>
  /\ (voice_pc = "idle" /\ voice_result # "none") =>
        /\ "temp_recording.wav" \notin voice_files
        /\ "temp_response.mp3" \notin voice_files

====
